---- MODULE Spec2Model ----
(***************************************************************************)
(* A model of epub-browser: the command-line orchestrator (main.py), the   *)
(* library manager (library.py), the file-system watcher (watch.py) and    *)
(* the parts of the per-book processor (processor.py) that decide where a  *)
(* book is stored and whether it is registered.                            *)
(*                                                                         *)
(* Paths are sequences of one-character strings, so that suffix tests      *)
(* (filename[-5:], str.endswith), os.path.basename, os.path.join and       *)
(* Path.parts are computed on the characters as the code computes them.    *)
(***************************************************************************)
EXTENDS Integers, Sequences, FiniteSets, TLC

VARIABLES
    \* ---- the file tree walked by epub_file_discover
    tree,           \* path -> "none" | "file" | "dir"
    darg,           \* the argument of epub_file_discover
    dresult,        \* the list it returned
    dpc,            \* "call" | "done"
    \* ---- the EPUB files' contents, as add_book finds them
    disk,           \* path -> content
    \* ---- EPUBLibrary and the directory it writes to
    books,          \* self.books: hash -> book record
    file2hash,      \* the path index the watcher reads: path -> hash
    tempdirs,       \* the working directories base_directory/epub_<h> that exist:
                    \* h -> whether the directory holds a web/ subdirectory
    \* ---- main()
    args,           \* args.filename
    real_epub_files,
    mpc,            \* main's position
    spawn_i,        \* the index of the next file of the loop of line 72
    tpc,            \* each worker thread's position
    success_count,
    pbar_n,         \* the updates the progress bar has received
    exit_code,      \* -1 while main() runs, then the code it exited with
    returned_ok,    \* history: the workers whose add_book call returned True
    \* ---- the directory the library writes to
    output_dir,     \* "None", or "out" for a directory the user supplied
    base_exists,    \* whether base_directory exists
    home,           \* index.html: NoIndex, UserIndex, or IndexOf(the books it lists)
    bookdir,        \* the hashes h whose directory book/<h> exists
    assets,         \* whether base_directory/assets exists
    userfile,       \* whether the user's own unrelated file is there
    cpc,            \* cleanup(): "none" before, then how its last call ended:
                    \* "returned" or "raised"
    \* ---- the watcher's handlers
    ev,             \* the last event handled
    calls,          \* history: the library calls its handler made, in order
                    \* (for add_book, with the value it returned)
    hraised,        \* history: the exception that ended the handler, or "none"
    rt,             \* history: the create/delete round trip under way
    \* ---- one call of a method of EPUBProcessor or EPUBWatcher on its own
    pin,            \* what the call is given
    pout,           \* what it returned or left behind
    ppc,            \* "idle" | "call" | "done"
    \* ---- main() once the books are published (lines 98-152)
    opts,           \* args.no_server, args.watch, args.keep_files
    server_thread,  \* "none" | "alive" | "dead"
    watchdog_thread,\* "none" | "alive" | "dead"
    interrupted,    \* history: KeyboardInterrupt was raised in the wait loop
    cleanups        \* history: the calls of library.cleanup() main() made

discVars == <<tree, darg, dresult, dpc>>
libVars  == <<books, file2hash, tempdirs>>
mainVars == <<args, real_epub_files, mpc, spawn_i, tpc, success_count, pbar_n,
              exit_code, returned_ok>>
fsVars   == <<output_dir, base_exists, home, bookdir, assets, userfile, cpc>>
watchVars == <<ev, calls, hraised, rt>>
procVars == <<pin, pout, ppc>>
serveVars == <<opts, server_thread, watchdog_thread, interrupted, cleanups>>
vars == <<tree, darg, dresult, dpc, disk, books, file2hash, tempdirs,
          args, real_epub_files, mpc, spawn_i, tpc, success_count, pbar_n,
          exit_code, returned_ok,
          output_dir, base_exists, home, bookdir, assets, userfile, cpc,
          ev, calls, hraised, rt, pin, pout, ppc,
          opts, server_thread, watchdog_thread, interrupted, cleanups>>

-----------------------------------------------------------------------------
(* Characters and names *)

SLASH == "/"
EPUB_SUFFIX == <<".", "e", "p", "u", "b">>

\* the file and directory names of the modelled trees
nA      == <<"a">> \o EPUB_SUFFIX                  \* a.epub
nB      == <<"b", ".", "E", "P", "U", "B">>        \* b.EPUB
nH      == <<".", "h">> \o EPUB_SUFFIX             \* .h.epub
nC      == <<"c">> \o EPUB_SUFFIX                  \* c.epub
nS      == <<"s">>                                 \* s      (a directory)
nT      == <<"t">>                                 \* t      (a directory)
nDot    == <<".", "d">>                            \* .d     (a hidden directory)
nDE     == <<"d">> \o EPUB_SUFFIX                  \* d.epub (a file or a directory)
Root    == <<SLASH, "w">>                          \* /w

\* os.path.join(a, b) for a relative b and an a that does not end in "/"
join(a, b) == a \o <<SLASH>> \o b

\* the position of the last "/" of p, 0 when it has none
LastSlash(p) ==
    LET idx == {i \in 1..Len(p) : p[i] = SLASH}
    IN  IF idx = {} THEN 0 ELSE CHOOSE i \in idx : \A j \in idx : j <= i

\* os.path.basename(p)
basename(p) == SubSeq(p, LastSlash(p) + 1, Len(p))

\* os.path.dirname(p), for a path with a directory part that is not "/"
dirname(p) == SubSeq(p, 1, LastSlash(p) - 1)

\* str.startswith('.')
startswith_dot(s) == Len(s) >= 1 /\ s[1] = "."

\* str.endswith('.epub')
endswith_epub(s) ==
    /\ Len(s) >= Len(EPUB_SUFFIX)
    /\ SubSeq(s, Len(s) - Len(EPUB_SUFFIX) + 1, Len(s)) = EPUB_SUFFIX

\* the components of a path: the maximal runs of characters other than "/"
RECURSIVE SplitFrom(_, _, _)
SplitFrom(p, i, cur) ==
    IF i > Len(p) THEN (IF cur = <<>> THEN <<>> ELSE <<cur>>)
    ELSE IF p[i] = SLASH
         THEN (IF cur = <<>> THEN <<>> ELSE <<cur>>) \o SplitFrom(p, i + 1, <<>>)
         ELSE SplitFrom(p, i + 1, Append(cur, p[i]))

components(p) == SplitFrom(p, 1, <<>>)

-----------------------------------------------------------------------------
(* EPUBLibrary.is_epub_file and EPUBLibrary.epub_file_discover *)

\* Python's filename[-5:]: the last five characters, the whole string when shorter
last5(filename) ==
    IF Len(filename) <= 5 THEN filename
    ELSE SubSeq(filename, Len(filename) - 4, Len(filename))

is_epub_file(filename) == last5(filename) = EPUB_SUFFIX

\* every path a modelled tree may hold
Universe ==
    { Root,
      join(Root, nA), join(Root, nB), join(Root, nH),
      join(Root, nS), join(join(Root, nS), nC),
      join(join(Root, nS), nT), join(join(join(Root, nS), nT), nC),
      join(Root, nDot), join(join(Root, nDot), nC),
      join(Root, nDE), join(join(Root, nDE), nC) }

\* the names that are only ever directories, and the one that may be either
OnlyDir == {Root, join(Root, nS), join(join(Root, nS), nT), join(Root, nDot)}
FileOrDir == {join(Root, nDE)}

KindsOf(p) ==
    IF p = Root THEN {"dir"}
    ELSE IF p \in OnlyDir THEN {"none", "dir"}
    ELSE IF p \in FileOrDir THEN {"none", "file", "dir"}
    ELSE {"none", "file"}

\* a tree is well formed when every entry's parent is a directory
WellFormed(t) ==
    \A p \in Universe \ {Root} : t[p] # "none" => t[dirname(p)] = "dir"

Trees == {t \in [Universe -> {"none", "file", "dir"}] :
            (\A p \in Universe : t[p] \in KindsOf(p)) /\ WellFormed(t)}

\* os.path.isdir, os.path.isfile, os.path.exists
isdir(t, p)  == p \in DOMAIN t /\ t[p] = "dir"
isfile(t, p) == p \in DOMAIN t /\ t[p] = "file"
exists(t, p) == p \in DOMAIN t /\ t[p] # "none"

\* os.listdir(d): the names of the entries of d
listdir(t, d) ==
    {basename(p) : p \in {q \in DOMAIN t \ {Root} : dirname(q) = d /\ t[q] # "none"}}

\* os.listdir returns the names in an arbitrary order; this is one such order
RECURSIVE SetToSeq(_)
SetToSeq(S) ==
    IF S = {} THEN <<>>
    ELSE LET x == CHOOSE y \in S : TRUE IN <<x>> \o SetToSeq(S \ {x})

RECURSIVE epub_file_discover(_, _)
RECURSIVE DiscoverEach(_, _, _)
DiscoverEach(t, filename, cur_files) ==
    IF cur_files = <<>> THEN <<>>
    ELSE epub_file_discover(t, join(filename, Head(cur_files)))
            \o DiscoverEach(t, filename, Tail(cur_files))

epub_file_discover(t, filename) ==
    IF is_epub_file(filename) THEN <<filename>>
    ELSE IF isdir(t, filename)
         THEN DiscoverEach(t, filename, SetToSeq(listdir(t, filename)))
         ELSE <<>>

Range(s) == {s[i] : i \in 1..Len(s)}

\* a path has a hidden part when its file name or one of its directories
\* begins with "."
HasHiddenPart(p) ==
    \E i \in 1..Len(components(p)) : startswith_dot(components(p)[i])

\* p is a or lies below the directory a
AtOrBelow(p, a) ==
    \/ p = a
    \/ Len(p) > Len(a) /\ SubSeq(p, 1, Len(a)) = a /\ p[Len(a) + 1] = SLASH

-----------------------------------------------------------------------------
(* Discovery over every tree: the caller is main(), lines 43-46, whose      *)
(* arguments exist (lines 34-37).                                           *)

\* the variables of main() and of the library, while they are not in use
MainIdle ==
    /\ args = <<>> /\ real_epub_files = <<>> /\ mpc = "idle" /\ spawn_i = 1
    /\ tpc = <<>> /\ success_count = 0 /\ pbar_n = 0 /\ exit_code = -1
    /\ returned_ok = {}

\* the empty mapping ({} in Python)
EmptyMap == [x \in {} |-> x]

\* index.html under the base directory: not there, a file the user had there,
\* or the page create_library_home wrote with one card per book
NoIndex == [kind |-> "absent", cards |-> {}]
UserIndex == [kind |-> "user", cards |-> {}]
IndexOf(bk) == [kind |-> "generated", cards |-> DOMAIN bk]

LibIdle ==
    /\ disk = EmptyMap /\ books = EmptyMap /\ file2hash = EmptyMap /\ tempdirs = EmptyMap

NoEvent == [kind |-> "none", src |-> <<>>, dest |-> <<>>]
NoRoundTrip == [stage |-> "none"]

WatchIdle ==
    /\ ev = NoEvent /\ calls = <<>> /\ hraised = "none" /\ rt = NoRoundTrip

\* main() has not reached line 98
NoOpts == [no_server |-> FALSE, watch |-> FALSE, keep_files |-> FALSE]

ServeIdle ==
    /\ opts = NoOpts /\ server_thread = "none" /\ watchdog_thread = "none"
    /\ interrupted = FALSE /\ cleanups = 0

\* a private temporary base directory (tempfile.mkdtemp), empty
FsFresh ==
    /\ output_dir = "None" /\ base_exists = TRUE /\ home = NoIndex
    /\ bookdir = {} /\ assets = FALSE /\ userfile = FALSE /\ cpc = "none"

\* before EPUBLibrary is constructed: no base directory yet
FsUnbuilt ==
    /\ output_dir = "None" /\ base_exists = FALSE /\ home = NoIndex
    /\ bookdir = {} /\ assets = FALSE /\ userfile = FALSE /\ cpc = "none"

DiscIdle ==
    /\ darg = <<>> /\ dresult = <<>> /\ dpc = "idle"

ProcIdle ==
    /\ pin = <<>> /\ pout = <<>> /\ ppc = "idle"

DiscInit ==
    /\ tree \in Trees
    /\ darg \in {p \in Universe : tree[p] # "none"}
    /\ dresult = <<>>
    /\ dpc = "call"
    /\ ProcIdle /\ MainIdle /\ LibIdle /\ FsFresh /\ WatchIdle /\ ServeIdle

Discover ==
    /\ dpc = "call"
    /\ dresult' = epub_file_discover(tree, darg)
    /\ dpc' = "done"
    /\ UNCHANGED <<tree, darg, disk, libVars, mainVars, fsVars, watchVars, procVars, serveVars>>

DiscNext == Discover

SpecDiscover == DiscInit /\ [][DiscNext]_vars

\* C7: epub_file_discover never returns a path whose file name begins with
\* "." or that lies under a directory whose name begins with ".".
C7_NoHiddenDiscovered ==
    dpc = "done" => \A p \in Range(dresult) : ~HasHiddenPart(p)

\* C9: epub_file_discover(path) returns exactly the regular files at or below
\* path whose name ends in ".epub": all of them, and nothing else.
C9_DiscoverExact ==
    dpc = "done" =>
        Range(dresult) = {p \in DOMAIN tree : /\ tree[p] = "file"
                                              /\ AtOrBelow(p, darg)
                                              /\ endswith_epub(basename(p))}

-----------------------------------------------------------------------------
(* EPUBProcessor: what decides whether a book is registered, and where      *)

\* What an EPUB file holds, as far as add_book can tell: whether the archive
\* opens, whether META-INF/container.xml names a rootfile, whether the OPF
\* parses, whether a later step raises, and the table of contents of its NCX
\* (<<>> when it has none).
NoToc == <<>>
Toc1  == <<"t", "1">>

Contents ==
    {[kind |-> "ok", toc |-> t] : t \in {NoToc, Toc1}}
    \cup {[kind |-> k, toc |-> NoToc] : k \in {"corrupt", "nocontainer", "badopf"}}
    \cup {[kind |-> "raises", toc |-> Toc1]}

Put(m, k, v) == [x \in DOMAIN m \cup {k} |-> IF x = k THEN v ELSE m[x]]
Without(m, ks) == [x \in DOMAIN m \ ks |-> m[x]]

\* hashlib.md5(epub_path.encode()).hexdigest()[:8], the hash of __init__:
\* a value that is a function of the path alone
path_hash(epub_path) == <<"p", epub_path>>

\* hashlib.md5(json.dumps(self.toc).encode()).hexdigest()[:8]: a function of
\* the table of contents alone
toc_hash(toc) == <<"t", toc>>

\* EPUBProcessor.extract_epub: False when the archive does not open
extract_epub(c) == c.kind # "corrupt"

\* EPUBProcessor.parse_container: the OPF path, or None
parse_container(c) == IF c.kind = "nocontainer" THEN "None" ELSE "content.opf"

\* EPUBProcessor.parse_opf: False when the OPF is missing or does not parse
parse_opf(c) == c.kind # "badopf"

\* generate_hash as it would be if the hash of __init__ were kept
generate_hash_keeps_path(book_hash, c) == book_hash

\* EPUBProcessor.generate_hash: the hash after the call
generate_hash(book_hash, c) ==
    IF c.toc # NoToc THEN toc_hash(c.toc) ELSE book_hash

\* EPUBProcessor.__init__: the working directory is made unless it exists
processor_init_dirs(td, book_hash) ==
    IF book_hash \in DOMAIN td THEN td ELSE Put(td, book_hash, FALSE)

\* the directories base_directory/epub_<h> after generate_hash: the working
\* directory is renamed to the new hash unless that directory exists already
generate_hash_dirs(td, book_hash, c) ==
    IF c.toc # NoToc /\ toc_hash(c.toc) \notin DOMAIN td
    THEN Put(Without(td, {book_hash}), toc_hash(c.toc), td[book_hash])
    ELSE td

\* EPUBProcessor.create_web_interface: os.makedirs(self.web_dir) comes first
create_web_interface_dirs(td, book_hash) == Put(td, book_hash, TRUE)

\* EPUBProcessor.create_web_interface raises (an unreadable page source, a
\* full disk): the "any later step" of add_book's except clause
create_web_interface_raises(c) == c.kind = "raises"

-----------------------------------------------------------------------------
(* EPUBLibrary.add_book *)

\* the record add_book stores: temp_dir and web_dir are base_directory/epub_<h>
\* and its web/ subdirectory, processor.epub_path is the source path
BookRecord(h, epub_path) == [temp_dir |-> h, web_dir |-> h, epub_path |-> epub_path]

\* add_book with the book stored before the OPF is parsed and the web
\* interface is built, so that a later failure leaves the record behind
add_book_registers_early(bk, td, epub_path, c) ==
    LET h0  == path_hash(epub_path)
        td0 == processor_init_dirs(td, h0)
        bk0 == Put(bk, h0, BookRecord(h0, epub_path))
    IN  IF ~extract_epub(c) THEN [result |-> FALSE, books |-> bk, tempdirs |-> td0]
        ELSE IF parse_container(c) = "None"
             THEN [result |-> FALSE, books |-> bk, tempdirs |-> td0]
        ELSE IF ~parse_opf(c) THEN [result |-> FALSE, books |-> bk0, tempdirs |-> td0]
        ELSE LET h1  == generate_hash(h0, c)
                 td1 == create_web_interface_dirs(generate_hash_dirs(td0, h0, c), h1)
             IN  IF create_web_interface_raises(c)
                 THEN [result |-> FALSE, books |-> bk0, tempdirs |-> td1]
                 ELSE [result   |-> TRUE,
                       books    |-> Put(bk, h1, BookRecord(h1, epub_path)),
                       tempdirs |-> td1]

\* add_book(epub_path) on a file holding c: the value returned, and the
\* registry and the working directories after the call
add_book(bk, td, epub_path, c) ==
    LET h0  == path_hash(epub_path)
        td0 == processor_init_dirs(td, h0)
        failed(t) == [result |-> FALSE, books |-> bk, tempdirs |-> t]
    IN  IF ~extract_epub(c) THEN failed(td0)
        ELSE IF parse_container(c) = "None" THEN failed(td0)
        ELSE IF ~parse_opf(c) THEN failed(td0)
        ELSE LET h1  == generate_hash(h0, c)
                 td1 == create_web_interface_dirs(generate_hash_dirs(td0, h0, c), h1)
             IN  IF create_web_interface_raises(c) THEN failed(td1)
                 ELSE [result   |-> TRUE,
                       books    |-> Put(bk, h1, BookRecord(h1, epub_path)),
                       tempdirs |-> td1]

-----------------------------------------------------------------------------
(* main(): argument check, discovery and ingestion (lines 33-89) *)

MaxWorkers == 10

\* "a, b = v" in Python: a TypeError when v is not iterable, as a bool is not
unpack2(v) ==
    IF v \in BOOLEAN THEN [raised |-> TRUE]
    ELSE [raised |-> FALSE, first |-> v[1], second |-> v[2]]

RECURSIVE DiscoverAll(_, _)
DiscoverAll(t, filenames) ==
    IF filenames = <<>> THEN <<>>
    ELSE epub_file_discover(t, Head(filenames)) \o DiscoverAll(t, Tail(filenames))

\* lines 34-37: every argument must exist
MainCheckPaths ==
    /\ mpc = "check_paths"
    /\ IF \E i \in 1..Len(args) : ~exists(tree, args[i])
       THEN mpc' = "exited" /\ exit_code' = 1
       ELSE mpc' = "discover" /\ UNCHANGED exit_code
    /\ UNCHANGED <<fsVars, watchVars, discVars, procVars, serveVars, disk, libVars, args, real_epub_files, spawn_i, tpc,
                   success_count, pbar_n, returned_ok>>

\* lines 40-55: the library, the list of files, the counter and the progress bar
MainDiscover ==
    /\ mpc = "discover"
    /\ real_epub_files' = DiscoverAll(tree, args)
    /\ tpc' = [i \in 1..Len(real_epub_files') |-> "idle"]
    /\ success_count' = 0
    /\ pbar_n' = 0
    /\ spawn_i' = 1
    /\ mpc' = "spawn"
    /\ base_exists' = TRUE
    /\ UNCHANGED <<output_dir, home, bookdir, assets, userfile, cpc>>
    /\ UNCHANGED <<watchVars, discVars, procVars, serveVars, disk, libVars, args, exit_code, returned_ok>>

\* lines 72-78: one thread per file, started at once; the executor of line 71
\* is given no task
MainStartThread ==
    /\ mpc = "spawn"
    /\ spawn_i <= Len(real_epub_files)
    /\ tpc' = [tpc EXCEPT ![spawn_i] = "add_book"]
    /\ spawn_i' = spawn_i + 1
    /\ UNCHANGED <<fsVars, watchVars, discVars, procVars, serveVars, disk, libVars, args, real_epub_files, mpc,
                   success_count, pbar_n, exit_code, returned_ok>>

\* add_book_thread, lines 58-67: the call of add_book returns and its value is
\* unpacked into (result, book_info); then the counter and the progress bar
ThreadAddBook(i) ==
    /\ i \in DOMAIN tpc
    /\ tpc[i] = "add_book"
    /\ LET r == add_book(books, tempdirs, real_epub_files[i], disk[real_epub_files[i]])
           u == unpack2(r.result)
       IN  /\ books' = r.books
           /\ tempdirs' = r.tempdirs
           /\ returned_ok' = IF r.result THEN returned_ok \cup {i} ELSE returned_ok
           /\ IF u.raised
              THEN /\ tpc' = [tpc EXCEPT ![i] = "raised"]
                   /\ UNCHANGED <<success_count, pbar_n>>
              ELSE /\ tpc' = [tpc EXCEPT ![i] = "done"]
                   /\ success_count' = IF u.first THEN success_count + 1 ELSE success_count
                   /\ pbar_n' = pbar_n + 1
    /\ UNCHANGED <<fsVars, watchVars, discVars, procVars, serveVars, disk, file2hash, args, real_epub_files, mpc, spawn_i,
                   exit_code>>

\* lines 84-89 without the joins of lines 81-82
MainJoin_no_wait ==
    /\ mpc = "spawn"
    /\ spawn_i > Len(real_epub_files)
    /\ IF success_count = 0
       THEN mpc' = "exited" /\ exit_code' = 1
       ELSE mpc' = "create_library_home" /\ UNCHANGED exit_code
    /\ UNCHANGED <<fsVars, watchVars, discVars, procVars, serveVars, disk, libVars, args,
                   real_epub_files, spawn_i, tpc, success_count, pbar_n, returned_ok>>

\* lines 81-89: join every thread, close the bar, and leave when nothing succeeded
MainJoin ==
    /\ mpc = "spawn"
    /\ spawn_i > Len(real_epub_files)
    /\ \A i \in DOMAIN tpc : tpc[i] \in {"raised", "done"}
    /\ IF success_count = 0
       THEN mpc' = "exited" /\ exit_code' = 1
       ELSE mpc' = "create_library_home" /\ UNCHANGED exit_code
    /\ UNCHANGED <<fsVars, watchVars, discVars, procVars, serveVars, disk, libVars, args, real_epub_files, spawn_i, tpc,
                   success_count, pbar_n, returned_ok>>

MainNext ==
    \/ MainCheckPaths
    \/ MainDiscover
    \/ MainStartThread
    \/ \E i \in DOMAIN tpc : ThreadAddBook(i)
    \/ MainJoin

\* the EPUB paths of a tree: what add_book may be given
EpubPaths(t) == {p \in DOMAIN t : is_epub_file(p) /\ t[p] # "none"}

\* ---- a run of main() over a small tree
MaxFiles == 2

MainTrees == {t \in Trees : Cardinality(EpubPaths(t)) <= MaxFiles
                            /\ t[join(Root, nB)] = "none"}

MainArgs(t) ==
    {<<Root>>, <<join(Root, nS), join(Root, nA)>>, <<Root, join(Root, nA)>>}

MainInit ==
    /\ tree \in MainTrees
    /\ args \in MainArgs(tree)
    /\ disk \in [EpubPaths(tree) -> Contents]
    /\ books = EmptyMap /\ file2hash = EmptyMap /\ tempdirs = EmptyMap
    /\ real_epub_files = <<>> /\ mpc = "check_paths" /\ spawn_i = 1
    /\ tpc = <<>> /\ success_count = 0 /\ pbar_n = 0 /\ exit_code = -1
    /\ returned_ok = {}
    /\ DiscIdle /\ ProcIdle /\ FsUnbuilt /\ WatchIdle /\ ServeIdle

SpecMain == MainInit /\ [][MainNext]_vars

\* ---- a run of main() over one directory of PoolFiles valid books
PoolFiles == 11

PoolName(i) == <<"f", ToString(i)>> \o EPUB_SUFFIX

PoolTree ==
    [p \in {Root} \cup {join(Root, PoolName(i)) : i \in 1..PoolFiles} |->
        IF p = Root THEN "dir" ELSE "file"]

PoolInit ==
    /\ tree = PoolTree
    /\ args = <<Root>>
    /\ disk = [p \in EpubPaths(PoolTree) |-> [kind |-> "ok", toc |-> NoToc]]
    /\ books = EmptyMap /\ file2hash = EmptyMap /\ tempdirs = EmptyMap
    /\ real_epub_files = <<>> /\ mpc = "check_paths" /\ spawn_i = 1
    /\ tpc = <<>> /\ success_count = 0 /\ pbar_n = 0 /\ exit_code = -1
    /\ returned_ok = {}
    /\ DiscIdle /\ ProcIdle /\ FsUnbuilt /\ WatchIdle /\ ServeIdle

SpecPool == PoolInit /\ [][MainNext]_vars

\* the add_book calls in progress
Executing == {i \in DOMAIN tpc : tpc[i] = "add_book"}

\* C1: at no point of the ingestion are more than 10 add_book calls executing
\* concurrently, however many files were discovered.
C1_AtMostTenConcurrent == Cardinality(Executing) <= MaxWorkers

\* C2: once every worker has finished, the success counter equals the number
\* of add_book calls that returned success.
C2_CounterEqualsSuccesses ==
    (mpc \notin {"check_paths", "discover", "spawn"} /\ real_epub_files # <<>>)
        => success_count = Cardinality(returned_ok)

\* C3: when every input path exists and at least one add_book call succeeded,
\* main() does not take the zero-books exit and goes on to create the home page.
C3_NoZeroBooksExitAfterSuccess ==
    returned_ok # {} => (mpc # "exited" /\ exit_code # 1)

\* C11: when no output directory was supplied, on every terminating path of
\* main() after the library is constructed the private temporary base
\* directory no longer exists at exit.
C11_TempBaseRemovedAtExit ==
    (mpc = "exited" /\ output_dir = "None") => ~base_exists

\* C12: the process exits with a non-zero code if and only if some input path
\* does not exist or no EPUB file was processed successfully.
C12_ExitCodeNonZeroIff ==
    mpc = "exited" =>
        (exit_code # 0 <=>
            \/ \E i \in 1..Len(args) : ~exists(tree, args[i])
            \/ returned_ok = {})

\* the add_book call of worker i returned in this step
AddBookReturns(i) ==
    i \in DOMAIN tpc /\ tpc[i] = "add_book" /\ tpc'[i] # "add_book"

\* C4: whenever add_book fails (the archive does not open, the container
\* names no OPF, the OPF does not parse, or a later step raises) it returns
\* False rather than raising, and books and the path index are as they were
\* before the call.
C4_FailedAddBookLeavesRegistry ==
    [][\A i \in DOMAIN tpc :
          (AddBookReturns(i) /\ disk[real_epub_files[i]].kind # "ok")
              => /\ i \notin returned_ok'
                 /\ tpc'[i] \in {"raised", "done"}
                 /\ books' = books
                 /\ file2hash' = file2hash]_vars

\* a worker's add_book call has failed, for each of the four reasons, in a
\* library that already holds a book
C4_Witness ==
    /\ books # EmptyMap
    /\ \E i \in DOMAIN tpc :
          /\ tpc[i] = "raised" /\ i \notin returned_ok
          /\ disk[real_epub_files[i]].kind \in {"corrupt", "nocontainer", "badopf", "raises"}

-----------------------------------------------------------------------------
(* EPUBLibrary: the operations on the registry and the output directory     *)

\* the library and its directory as one value, so that a handler's calls compose
LibState ==
    [books |-> books, file2hash |-> file2hash, tempdirs |-> tempdirs,
     home |-> home, bookdir |-> bookdir, calls |-> <<>>, raised |-> "none"]

Called(st, op, path) == [st EXCEPT !.calls = Append(@, <<op, path>>)]

\* create_library_home: index.html is written with one card per book of self.books
create_library_home(st, path) ==
    [Called(st, "create_library_home", path) EXCEPT !.home = IndexOf(st.books)]

\* move_book(hash): publishes the book's web directory as book/<hash>
move_book(st, h, path) ==
    [Called(st, "move_book", path) EXCEPT !.bookdir = @ \cup {h}]

\* remove_book(hash): deletes book/<hash> and removes the book from books and
\* its source path from the path index
remove_book(st, h, path) ==
    [Called(st, "remove_book", path) EXCEPT
        !.bookdir = @ \ {h},
        !.file2hash = Without(@, {st.books[h].epub_path}),
        !.books = Without(@, {h})]

-----------------------------------------------------------------------------
(* EpubFileHandler *)

nL == <<".", "l">>                                 \* .l  (a symbolic link to s)

wA == join(Root, nA)                               \* /w/a.epub
wC == join(join(Root, nS), nC)                     \* /w/s/c.epub
wH == join(Root, nH)                               \* /w/.h.epub
wD == join(join(Root, nDot), nC)                   \* /w/.d/c.epub
wL == join(join(Root, nL), nC)                     \* /w/.l/c.epub
wB == join(Root, nB)                               \* /w/b.EPUB

wDir == join(Root, nDE)                            \* /w/d.epub, a directory

WatchPaths == {wA, wC, wH, wD, wL, wB, wDir}

\* event.is_directory
is_directory(path) == path = wDir

\* the moves the watcher is shown: visible to visible, to and from hidden
\* paths, to and from a name that is no EPUB's, and of a directory
MovedPairs ==
    {<<wA, wC>>, <<wC, wA>>, <<wA, wH>>, <<wH, wA>>, <<wD, wC>>, <<wC, wD>>,
     <<wA, wL>>, <<wL, wA>>, <<wA, wB>>, <<wB, wA>>, <<wH, wD>>, <<wDir, wA>>}

\* what add_book may find in the file of an event
EventContents ==
    {c \in Contents : c.kind \in {"ok", "corrupt", "raises"}}

\* the one symbolic link of the watched tree: /w/.l -> /w/s
LinkFrom == join(Root, nL)
LinkTo   == join(Root, nS)

\* Path(path_str).resolve() for an absolute path: symbolic links are followed
resolve(p) ==
    IF AtOrBelow(p, LinkFrom)
    THEN LinkTo \o SubSeq(p, Len(LinkFrom) + 1, Len(p))
    ELSE p

\* has_hidden_component with the test inverted, as its twin
\* EPUBWatcher.has_no_hidden_component is
has_hidden_component_inverted(path_str) ==
    LET parts == components(resolve(path_str))
    IN  ~\E i \in 1..Len(parts) : startswith_dot(parts[i])

\* EpubFileHandler.has_hidden_component: parts[1:] of the resolved path
has_hidden_component(path_str) ==
    LET parts == components(resolve(path_str))
    IN  \E i \in 1..Len(parts) : startswith_dot(parts[i])

\* the test of lines 29, 47, 65, 90 and 98
ignored(path) == startswith_dot(basename(path)) \/ has_hidden_component(path)

\* lines 38-43, 56-61 and 99-104: add_book, and on success move_book and
\* create_library_home
add_and_publish(st, path, c) ==
    LET r   == add_book(st.books, st.tempdirs, path, c)
        st1 == [st EXCEPT !.calls = Append(@, <<"add_book", path, r.result>>),
                          !.books = r.books, !.tempdirs = r.tempdirs]
        u   == unpack2(r.result)
    IN  IF u.raised THEN [st1 EXCEPT !.raised = "TypeError"]
        ELSE IF u.first
             THEN create_library_home(move_book(st1, u.second.hash, path), path)
             ELSE st1

\* lines 74-79 without the call of create_library_home
remove_known_no_home(st, path) ==
    IF path \in DOMAIN st.file2hash
    THEN LET h == st.file2hash[path]
         IN  IF h \notin DOMAIN st.books
             THEN [st EXCEPT !.raised = "KeyError"]
             ELSE remove_book(st, h, path)
    ELSE st

\* lines 74-79 and 90-95: remove the book of a known path
remove_known(st, path) ==
    IF path \in DOMAIN st.file2hash
    THEN LET h == st.file2hash[path]
         IN  IF h \notin DOMAIN st.books
             THEN [st EXCEPT !.raised = "KeyError"]
             ELSE create_library_home(remove_book(st, h, path), path)
    ELSE st

\* on_created and on_modified (the two differ in what they print)
on_created(st, e, c) ==
    IF ~e.is_directory /\ endswith_epub(e.src)
    THEN IF ignored(e.src) THEN st ELSE add_and_publish(st, e.src, c)
    ELSE st

on_modified(st, e, c) == on_created(st, e, c)

on_deleted(st, e) ==
    IF ~e.is_directory /\ endswith_epub(e.src)
    THEN IF ignored(e.src) THEN st ELSE remove_known(st, e.src)
    ELSE st

on_moved(st, e, c) ==
    LET st1 == IF ~e.is_directory /\ endswith_epub(e.src) /\ ~ignored(e.src)
               THEN remove_known(st, e.src)
               ELSE st
    IN  IF st1.raised # "none" THEN st1
        ELSE IF endswith_epub(e.dest) /\ ~ignored(e.dest)
             THEN add_and_publish(st1, e.dest, c)
             ELSE st1

\* ---- the round trip of C6: a create event for a new valid file, then a
\* delete event for the same path
IsNewValid(p, c) ==
    /\ c.kind = "ok"
    /\ endswith_epub(p) /\ ~HasHiddenPart(p)
    /\ p \notin DOMAIN file2hash
    /\ generate_hash(path_hash(p), c) \notin DOMAIN books
    /\ \A h \in DOMAIN books : books[h].epub_path # p

RoundTripAfter(e, c) ==
    IF e.kind = "created" /\ ~e.is_directory /\ IsNewValid(e.src, c)
    THEN [stage |-> "created", path |-> e.src, books0 |-> books, index0 |-> file2hash]
    ELSE IF e.kind = "deleted" /\ ~e.is_directory /\ rt.stage = "created" /\ rt.path = e.src
    THEN [stage |-> "deleted", path |-> rt.path, books0 |-> rt.books0, index0 |-> rt.index0]
    ELSE NoRoundTrip

\* the handler of event e has run to its end (or to its exception)
Handled(st, e, c) ==
    /\ books' = st.books
    /\ file2hash' = st.file2hash
    /\ tempdirs' = st.tempdirs
    /\ home' = st.home
    /\ bookdir' = st.bookdir
    /\ calls' = st.calls
    /\ hraised' = st.raised
    /\ ev' = [kind |-> e.kind, src |-> e.src, dest |-> e.dest]
    /\ rt' = RoundTripAfter(e, c)
    /\ UNCHANGED <<discVars, procVars, serveVars, disk, mainVars, output_dir, base_exists, assets,
                   userfile, cpc>>

Event(kind, src, dest) ==
    [kind |-> kind, src |-> src, dest |-> dest, is_directory |-> is_directory(src)]

OnCreated ==
    \E p \in WatchPaths, c \in EventContents :
        LET e == Event("created", p, <<>>)
        IN  /\ e.kind = "created"
            /\ Handled(on_created(LibState, e, c), e, c)

OnModified ==
    \E p \in WatchPaths, c \in EventContents :
        LET e == Event("modified", p, <<>>)
        IN  /\ e.kind = "modified"
            /\ Handled(on_modified(LibState, e, c), e, c)

OnDeleted ==
    \E p \in WatchPaths, c \in {[kind |-> "corrupt", toc |-> NoToc]} :
        LET e == Event("deleted", p, <<>>)
        IN  /\ e.kind = "deleted"
            /\ Handled(on_deleted(LibState, e), e, c)

OnMoved ==
    \E m \in MovedPairs, c \in EventContents :
        LET e == Event("moved", m[1], m[2])
        IN  /\ e.kind = "moved"
            /\ Handled(on_moved(LibState, e, c), e, c)

\* a call of library.add_book by the library's owner, as main.py:61 makes
Ingest ==
    \E p \in {wA, wC}, c \in Contents :
        LET r == add_book(books, tempdirs, p, c)
        IN  /\ books' = r.books
            /\ tempdirs' = r.tempdirs
            /\ ev' = [kind |-> "ingest", src |-> p, dest |-> <<>>]
            /\ calls' = <<>>
            /\ hraised' = "none"
            /\ rt' = NoRoundTrip
            /\ UNCHANGED <<discVars, procVars, serveVars, disk, mainVars, file2hash, fsVars>>

WatchInit ==
    /\ tree = EmptyMap /\ DiscIdle /\ ProcIdle /\ MainIdle /\ LibIdle /\ FsFresh /\ WatchIdle /\ ServeIdle

WatchNext ==
    \/ Ingest
    \/ OnCreated
    \/ OnModified
    \/ OnDeleted
    \/ OnMoved

SpecWatch == WatchInit /\ [][WatchNext]_vars

HandlerKinds == {"created", "modified", "deleted", "moved"}

\* the paths an event names: its source, and for a move its destination too
Sides(e) == {e.src} \cup (IF e.kind = "moved" THEN {e.dest} ELSE {})

\* the library calls the last handler made on behalf of path x
CallsFor(cs, x) == {i \in 1..Len(cs) : cs[i][2] = x}

\* the home pages the last handler wrote
HomeWrites(cs) == {i \in 1..Len(cs) : cs[i][1] = "create_library_home"}

\* C5: every source path recorded in the path index maps to a hash that is a
\* key of books. (No code of library.py writes the index, so it is empty in
\* every reachable state and the statement is not put to the test.)
C5_IndexedPathsHaveBooks ==
    \A p \in DOMAIN file2hash : file2hash[p] \in DOMAIN books

\* C6: a create event for a new valid non-hidden .epub file adds exactly one
\* entry to books and regenerates the home page once; a delete event for the
\* same path right after it removes exactly that entry and regenerates the
\* home page, so that books and the path index are as before the create.
C6_CreateDeleteRoundTrip ==
    /\ rt.stage = "created" =>
          /\ Cardinality(DOMAIN books) = Cardinality(DOMAIN rt.books0) + 1
          /\ \A h \in DOMAIN rt.books0 : h \in DOMAIN books /\ books[h] = rt.books0[h]
          /\ Cardinality(HomeWrites(calls)) = 1
    /\ rt.stage = "deleted" =>
          /\ books = rt.books0
          /\ file2hash = rt.index0
          /\ Cardinality(HomeWrites(calls)) = 1

HiddenResolved(x) == startswith_dot(basename(x)) \/ HasHiddenPart(resolve(x))

CallNames(cs) == [i \in 1..Len(cs) |-> cs[i][1]]

\* C20: for a create or modify event on a non-hidden file path ending in
\* ".epub" the handler calls add_book for that path; when add_book succeeds
\* it then calls move_book and after it create_library_home; when add_book
\* fails it calls neither and the home page is not regenerated.
C20_AddThenPublishInOrder ==
    [][(/\ ev'.kind \in {"created", "modified"}
        /\ ~is_directory(ev'.src)
        /\ endswith_epub(ev'.src)
        /\ ~HasHiddenPart(ev'.src))
          => /\ Len(calls') >= 1
             /\ calls'[1] \in {<<"add_book", ev'.src, TRUE>>, <<"add_book", ev'.src, FALSE>>}
             /\ calls'[1][3] =>
                    CallNames(calls') = <<"add_book", "move_book", "create_library_home">>
             /\ ~calls'[1][3] => (Len(calls') = 1 /\ home' = home)]_vars

-----------------------------------------------------------------------------
(* EPUBLibrary: add_assets, reorganize_files and cleanup, on the output     *)
(* directory                                                                *)

\* the call of a method of the library its owner made last
LibCall(op, path) == [kind |-> op, src |-> path, dest |-> <<>>]

\* reorganize_files giving up at the first book it cannot move
Movable_all_or_none(bk, td) ==
    IF \A h \in DOMAIN bk : bk[h].web_dir \in DOMAIN td /\ td[bk[h].web_dir]
    THEN DOMAIN bk
    ELSE {}

\* the books whose web directory is there to be moved
Movable(bk, td) == {h \in DOMAIN bk : bk[h].web_dir \in DOMAIN td /\ td[bk[h].web_dir]}

\* the registered books' working directories that exist
RegisteredTempDirs(bk, td) == {bk[h].temp_dir : h \in DOMAIN bk} \cap DOMAIN td

\* a call of add_book by the library's owner
LibAddBook ==
    /\ cpc = "none"
    /\ \E p \in {wA, wC}, c \in Contents :
          LET r == add_book(books, tempdirs, p, c)
          IN  /\ books' = r.books /\ tempdirs' = r.tempdirs
              /\ ev' = LibCall("add_book", p)
    /\ UNCHANGED <<discVars, procVars, serveVars, disk, mainVars, file2hash, fsVars,
                   calls, hraised, rt>>

\* create_library_home
LibCreateHome ==
    /\ cpc = "none"
    /\ home' = IndexOf(books)
    /\ ev' = LibCall("create_library_home", <<>>)
    /\ UNCHANGED <<discVars, procVars, serveVars, disk, mainVars, libVars, output_dir, base_exists,
                   bookdir, assets, userfile, cpc, calls, hraised, rt>>

\* add_assets: the bundled files are copied into base_directory/assets
LibAddAssets ==
    /\ cpc = "none"
    /\ assets' = TRUE
    /\ ev' = LibCall("add_assets", <<>>)
    /\ UNCHANGED <<discVars, procVars, serveVars, disk, mainVars, libVars, output_dir, base_exists,
                   home, bookdir, userfile, cpc, calls, hraised, rt>>

\* reorganize_files: book/ is emptied, then each book's web directory is
\* moved to book/<hash> and its working directory deleted; a book whose web
\* directory is not there is logged and skipped
LibReorganize ==
    /\ cpc = "none"
    /\ bookdir' = Movable(books, tempdirs)
    /\ tempdirs' = Without(tempdirs, {books[h].temp_dir : h \in Movable(books, tempdirs)})
    /\ ev' = LibCall("reorganize_files", <<>>)
    /\ UNCHANGED <<discVars, procVars, serveVars, disk, mainVars, books, file2hash, output_dir,
                   base_exists, home, assets, userfile, cpc, calls, hraised, rt>>

\* cleanup with a user-supplied output directory (lines 951-958): os.remove
\* raises when index.html is not there, after the working directories went
cleanup_user_dir ==
    /\ tempdirs' = Without(tempdirs, RegisteredTempDirs(books, tempdirs))
    /\ IF home = NoIndex
       THEN cpc' = "raised" /\ UNCHANGED home
       ELSE cpc' = "returned" /\ home' = NoIndex
    /\ UNCHANGED <<base_exists, bookdir, assets, userfile>>

\* cleanup of the private temporary directory (lines 959-964)
cleanup_temp_dir ==
    /\ IF base_exists
       THEN /\ base_exists' = FALSE /\ tempdirs' = EmptyMap /\ home' = NoIndex
            /\ bookdir' = {} /\ assets' = FALSE /\ userfile' = FALSE
       ELSE UNCHANGED <<base_exists, tempdirs, home, bookdir, assets, userfile>>
    /\ cpc' = "returned"

LibCleanup ==
    /\ cpc \in {"none", "returned"}
    /\ IF output_dir # "None" THEN cleanup_user_dir ELSE cleanup_temp_dir
    /\ ev' = LibCall("cleanup", <<>>)
    /\ UNCHANGED <<discVars, procVars, serveVars, disk, mainVars, books, file2hash, output_dir,
                   calls, hraised, rt>>

\* the library after construction: a fresh temporary directory, or the
\* user's directory with whatever it held
CleanInit ==
    /\ tree = EmptyMap /\ DiscIdle /\ ProcIdle /\ MainIdle /\ LibIdle /\ WatchIdle /\ ServeIdle
    /\ output_dir \in {"None", "out"}
    /\ base_exists = TRUE
    /\ bookdir = {}
    /\ cpc = "none"
    /\ IF output_dir = "None"
       THEN home = NoIndex /\ assets = FALSE /\ userfile = FALSE
       ELSE home \in {NoIndex, UserIndex} /\ assets \in BOOLEAN /\ userfile \in BOOLEAN

CleanNext ==
    \/ LibAddBook
    \/ LibCreateHome
    \/ LibAddAssets
    \/ LibReorganize
    \/ LibCleanup

SpecClean == CleanInit /\ [][CleanNext]_vars

\* C10: with a user-supplied output directory, cleanup() removes the
\* generated index.html, the assets/ directory if present and every registered
\* book's temp directory that still exists, and leaves everything else under
\* the output directory unchanged.
C10_CleanupScope ==
    [][(cpc = "none" /\ cpc' = "returned" /\ output_dir # "None") =>
          /\ home' = NoIndex
          /\ assets' = FALSE
          /\ tempdirs' = Without(tempdirs, RegisteredTempDirs(books, tempdirs))
          /\ UNCHANGED <<bookdir, userfile>>]_vars

-----------------------------------------------------------------------------
(* EPUBProcessor: the book hash of two runs over the same content           *)

\* paths inside an EPUB, relative to its root, as sequences of components
pCh1 == <<"text", "ch1.xhtml">>
pCh2 == <<"text", "ch2.xhtml">>
pCh3 == <<"ch3.html">>

\* an entry of self.toc as parse_ncx appends it
TocItem(title, src) == [title |-> title, src |-> src, level |-> 0]

\* titles are strings, kept as sequences of their pieces
TocItems == {TocItem(t, s) : t \in {<<"One">>, <<"Two">>}, s \in {pCh1, pCh2, pCh3}}

\* the tables of contents parse_ncx may return: up to two entries
SmallTocs ==
    {<<>>} \cup {<<x>> : x \in TocItems} \cup {<<x, y>> : x \in TocItems, y \in TocItems}

\* the book hash of one run of __init__, parse_opf and generate_hash over the
\* file at epub_path
run_hash(epub_path, c) == generate_hash(path_hash(epub_path), c)

HashInit ==
    /\ pin \in [first : {wA, wC, wB}, second : {wA, wC, wB}, toc : SmallTocs]
    /\ pout = <<>> /\ ppc = "call"
    /\ tree = EmptyMap /\ DiscIdle /\ MainIdle /\ LibIdle /\ FsFresh /\ WatchIdle /\ ServeIdle

\* the two runs, each to the end of generate_hash
HashRuns ==
    /\ ppc = "call"
    /\ LET c == [kind |-> "ok", toc |-> pin.toc]
       IN  pout' = <<run_hash(pin.first, c), run_hash(pin.second, c)>>
    /\ ppc' = "done"
    /\ UNCHANGED <<pin, serveVars, discVars, disk, libVars, mainVars, fsVars, watchVars>>

HashNext == HashRuns

SpecHash == HashInit /\ [][HashNext]_vars

\* C13: two runs over EPUBs of the same content at different paths have, once
\* a non-empty TOC is parsed and generate_hash has run, the same book hash.
C13_HashIgnoresPath ==
    (ppc = "done" /\ pin.toc # <<>>) => pout[1] = pout[2]

\* two runs over one two-entry TOC at two paths whose path hashes differ
C13_Witness ==
    /\ ppc = "done" /\ Len(pin.toc) = 2
    /\ pin.first = wA /\ pin.second = wC
    /\ path_hash(pin.first) # path_hash(pin.second)
    /\ pout[1] = pout[2]

-----------------------------------------------------------------------------
(* EPUBProcessor: parse_opf's chapter list, the chapter pages and the       *)
(* chapter list of the book's index page                                    *)

HtmlTypes == {"application/xhtml+xml", "text/html"}

\* the manifest of the OPF: item id -> full_path and media type; two items
\* have the same file name in different directories
pCh1b == <<"ch1.xhtml">>
pCss  == <<"s.css">>

TheManifest ==
    [id \in {"m1", "m2", "m3", "m4", "css"} |->
        CASE id = "m1" -> [full_path |-> pCh1, media_type |-> "application/xhtml+xml"]
          [] id = "m2" -> [full_path |-> pCh2, media_type |-> "application/xhtml+xml"]
          [] id = "m3" -> [full_path |-> pCh3, media_type |-> "text/html"]
          [] id = "m4" -> [full_path |-> pCh1b, media_type |-> "application/xhtml+xml"]
          [] id = "css" -> [full_path |-> pCss, media_type |-> "text/css"]]

\* the idrefs a spine may hold: manifest items, and one that the manifest lacks
IdRefs == DOMAIN TheManifest \cup {"zz"}

\* os.path.basename of a path inside the EPUB
inner_basename(path) == IF path = <<>> THEN <<>> ELSE <<path[Len(path)]>>

\* the title of the first entry of toc that satisfies match, or <<>> for None
RECURSIVE first_title(_, _, _)
first_title(toc, chapter_path, by_name) ==
    IF toc = <<>> THEN <<>>
    ELSE IF (IF by_name
             THEN inner_basename(Head(toc).src) = inner_basename(chapter_path)
             ELSE Head(toc).src = chapter_path)
         THEN Head(toc).title
         ELSE first_title(Tail(toc), chapter_path, by_name)

\* find_chapter_title: an exact match first, then a match of the file names
\* (the third pass, on normalized paths, finds nothing the first did not: both
\* paths are normalized when they are stored)
find_chapter_title(toc, chapter_path) ==
    IF first_title(toc, chapter_path, FALSE) # <<>>
    THEN first_title(toc, chapter_path, FALSE)
    ELSE first_title(toc, chapter_path, TRUE)

\* f"Chapter {n}"
chapter_n(n) == <<"Chapter ", ToString(n)>>

\* the fallback title numbered from zero
fallback_title_from_zero(chapters) == chapter_n(Len(chapters))

\* f"Chapter {len(self.chapters) + 1}"
fallback_title(chapters) == chapter_n(Len(chapters) + 1)

\* the spine loop of parse_opf, lines 313-329
RECURSIVE spine_chapters(_, _, _, _)
spine_chapters(spine, manifest, toc, chapters) ==
    IF spine = <<>> THEN chapters
    ELSE LET idref == Head(spine)
             keep  == idref \in DOMAIN manifest /\ manifest[idref].media_type \in HtmlTypes
             title == find_chapter_title(toc, manifest[idref].full_path)
             rec   == [id |-> idref, path |-> manifest[idref].full_path,
                       title |-> IF title # <<>> THEN title ELSE fallback_title(chapters)]
         IN  spine_chapters(Tail(spine), manifest, toc,
                            IF keep THEN Append(chapters, rec) ELSE chapters)

\* create_chapter_pages: chapter_<i>.html is written from chapter i's source
\* when that file exists in the extracted archive and reads as UTF-8; the
\* result maps i to the source of the page written
create_chapter_pages(chapters, files) ==
    [i \in {j \in 0..(Len(chapters) - 1) : chapters[j + 1].path \in files} |->
        chapters[i + 1].path]

\* chapter_index_map of create_index_page: path -> the last index with it
chapter_index_map(chapters) ==
    [q \in {chapters[i].path : i \in 1..Len(chapters)} |->
        CHOOSE i \in 0..(Len(chapters) - 1) :
            /\ chapters[i + 1].path = q
            /\ \A j \in 0..(Len(chapters) - 1) : chapters[j + 1].path = q => j <= i]

RECURSIVE toc_entries(_, _)
toc_entries(toc, index_map) ==
    IF toc = <<>> THEN <<>>
    ELSE (IF Head(toc).src \in DOMAIN index_map
          THEN <<[title |-> Head(toc).title, page |-> index_map[Head(toc).src]]>>
          ELSE <<>>) \o toc_entries(Tail(toc), index_map)

\* the chapter list of create_index_page, lines 953-974: each entry's title
\* and the i of the chapter_<i>.html it links to
index_entries(toc, chapters) ==
    IF toc # <<>>
    THEN toc_entries(toc, chapter_index_map(chapters))
    ELSE [i \in 1..Len(chapters) |-> [title |-> chapters[i].title, page |-> i - 1]]

\* ---- one book processed: parse_opf, then create_web_interface
MaxSpine == 3

Spines == UNION {[1..n -> IdRefs] : n \in 0..MaxSpine}

OpfTocs == {<<>>} \cup {<<x>> : x \in TocItems}
           \cup {<<TocItem(<<"One">>, pCh1), TocItem(<<"Two">>, pCh3)>>,
                 <<TocItem(<<"One">>, pCh3), TocItem(<<"Two">>, pCh1b)>>}

OpfInit ==
    /\ pin \in [spine : Spines, toc : OpfTocs, files : SUBSET {pCh1, pCh2, pCh3, pCh1b}]
    /\ pout = <<>> /\ ppc = "call"
    /\ tree = EmptyMap /\ DiscIdle /\ MainIdle /\ LibIdle /\ FsFresh /\ WatchIdle /\ ServeIdle

ProcessBook ==
    /\ ppc = "call"
    /\ LET chapters == spine_chapters(pin.spine, TheManifest, pin.toc, <<>>)
       IN  pout' = [chapters |-> chapters,
                    pages |-> create_chapter_pages(chapters, pin.files),
                    index |-> index_entries(pin.toc, chapters)]
    /\ ppc' = "done"
    /\ UNCHANGED <<pin, serveVars, discVars, disk, libVars, mainVars, fsVars, watchVars>>

OpfNext == ProcessBook

SpecOpf == OpfInit /\ [][OpfNext]_vars

\* the spine's itemrefs that refer to XHTML/HTML manifest items, in order
RECURSIVE HtmlRefs(_)
HtmlRefs(spine) ==
    IF spine = <<>> THEN <<>>
    ELSE (IF Head(spine) \in DOMAIN TheManifest
             /\ TheManifest[Head(spine)].media_type \in HtmlTypes
          THEN <<Head(spine)>> ELSE <<>>) \o HtmlRefs(Tail(spine))

\* C14: for an EPUB whose spine lists N itemrefs that refer to XHTML/HTML
\* manifest items, the run writes exactly chapter_0.html .. chapter_{N-1}.html,
\* chapter_i.html from the i-th such spine document.
C14_ExactlyNChapterFiles ==
    ppc = "done" =>
        LET refs == HtmlRefs(pin.spine)
        IN  /\ DOMAIN pout.pages = 0..(Len(refs) - 1)
            /\ \A i \in DOMAIN pout.pages :
                   pout.pages[i] = TheManifest[refs[i + 1]].full_path

\* C16: with an empty TOC the chapter at spine position k is titled
\* "Chapter k+1" and the index page lists one entry per chapter, in spine
\* order, entry k linking to chapter_k.html; and with any TOC a chapter that no
\* TOC entry matches, by path or by file name, is titled "Chapter n" for n the
\* count of chapters appended so far, itself included.
C16_TocFallbackTitles ==
    ppc = "done" =>
        LET chapters == pout.chapters
            refs == HtmlRefs(pin.spine)
        IN  /\ Len(chapters) = Len(refs)
            /\ \A k \in 1..Len(chapters) :
                   (\A x \in Range(pin.toc) :
                        inner_basename(x.src) # inner_basename(chapters[k].path))
                       => chapters[k].title = chapter_n(k)
            /\ pin.toc = <<>> =>
                   /\ Len(pout.index) = Len(chapters)
                   /\ \A k \in 1..Len(chapters) :
                          pout.index[k] = [title |-> chapter_n(k), page |-> k - 1]

\* a book with no TOC and three chapters, and a book whose TOC names one of
\* its chapters and not the one after it
C16_Witness ==
    /\ ppc = "done"
    /\ \/ pin.toc = <<>> /\ Len(pout.chapters) = 3 /\ Len(pout.index) = 3
       \/ /\ Len(pin.toc) = 1 /\ Len(pout.chapters) = 2
          /\ pout.chapters[1].title = <<"One">>
          /\ pout.chapters[2].title = chapter_n(2)

-----------------------------------------------------------------------------
(* EPUBProcessor.find_cover_info *)

\* the strings find_cover_info looks for, and a few hrefs, as characters
COVER_LOWER == <<"c", "o", "v", "e", "r">>
COVER_CAP == <<"C", "o", "v", "e", "r">>
COVER_UPPER == <<"C", "O", "V", "E", "R">>
TITLEPAGE_LOWER == <<"t", "i", "t", "l", "e", "p", "a", "g", "e">>
TITLEPAGE_CAP == <<"T", "i", "t", "l", "e", "P", "a", "g", "e">>
HREF_A == <<"a", ".", "p", "n", "g">>
HREF_B == <<"b", ".", "p", "n", "g">>
HREF_COVER == <<"i", "m", "g", "/", "c", "o", "v", "e", "r", ".", "j", "p", "g">>
HREF_TITLE == <<"T", "i", "t", "l", "e", "P", "a", "g", "e", ".", "g", "i", "f">>
HREF_PAGE == <<"c", "o", "v", "e", "r", ".", "x", "h", "t", "m", "l">>

\* "pattern in href", on strings as sequences of characters
contains(href, pattern) ==
    \E i \in 1..(Len(href) - Len(pattern) + 1) :
        SubSeq(href, i, i + Len(pattern) - 1) = pattern

cover_patterns ==
    {COVER_LOWER, COVER_CAP, COVER_UPPER, TITLEPAGE_LOWER, TITLEPAGE_CAP}

\* media_type.startswith('image/'), a media type being its pieces in order
is_image(media_type) ==
    Len(media_type) >= 2 /\ media_type[1] = "image" /\ media_type[2] = "/"

NoCover == [id |-> "None", href |-> <<>>, media_type |-> <<>>]

\* the content of the last meta named cover or cover-image
RECURSIVE declared_cover_id_last(_)
declared_cover_id_last(metas) ==
    IF metas = <<>> THEN ""
    ELSE IF declared_cover_id_last(Tail(metas)) # "" THEN declared_cover_id_last(Tail(metas))
         ELSE IF Head(metas).name \in {"cover", "cover-image"} THEN Head(metas).content
         ELSE ""

\* the content of the first meta named cover or cover-image ("" when there is
\* none, or when it has no content: both are false to the test of line 108)
RECURSIVE declared_cover_id(_)
declared_cover_id(metas) ==
    IF metas = <<>> THEN ""
    ELSE IF Head(metas).name \in {"cover", "cover-image"} THEN Head(metas).content
         ELSE declared_cover_id(Tail(metas))

\* a loop over items that returns the first one at a position of hits;
\* NoCover when the loop ends without returning
first_item(items, hits) ==
    IF hits = {} THEN NoCover
    ELSE items[CHOOSE i \in hits : \A j \in hits : i <= j]

find_cover_info(metas, manifest_items) ==
    LET cover_id == declared_cover_id(metas)
        at      == 1..Len(manifest_items)
        by_id   == {i \in at : manifest_items[i].id = cover_id}
        by_name == {i \in at : /\ is_image(manifest_items[i].media_type)
                               /\ \E pattern \in cover_patterns :
                                      contains(manifest_items[i].href, pattern)}
        by_type == {i \in at : is_image(manifest_items[i].media_type)}
        declared == IF cover_id # "" THEN first_item(manifest_items, by_id) ELSE NoCover
    IN  IF declared # NoCover THEN declared
        ELSE IF first_item(manifest_items, by_name) # NoCover
             THEN first_item(manifest_items, by_name)
             ELSE first_item(manifest_items, by_type)

\* ---- one call of find_cover_info
MaxItems == 3
MaxMetas == 2

PNG == <<"image", "/", "png">>
JPEG == <<"image", "/", "jpeg">>
XHTML == <<"application", "/", "xhtml+xml">>

CoverItems ==
    {[id |-> "img1", href |-> HREF_A, media_type |-> PNG],
     [id |-> "img2", href |-> HREF_COVER, media_type |-> JPEG],
     [id |-> "img3", href |-> HREF_TITLE, media_type |-> <<"image">>],
     [id |-> "page", href |-> HREF_PAGE, media_type |-> XHTML],
     [id |-> "img1", href |-> HREF_B, media_type |-> PNG]}

CoverMetas ==
    [name : {"cover", "cover-image", "calibre:series"}, content : {"img1", "img2", "gone", ""}]

CoverInit ==
    /\ pin \in [metas : UNION {[1..n -> CoverMetas] : n \in 0..MaxMetas},
                items : UNION {[1..n -> CoverItems] : n \in 0..MaxItems}]
    /\ pout = <<>> /\ ppc = "call"
    /\ tree = EmptyMap /\ DiscIdle /\ MainIdle /\ LibIdle /\ FsFresh /\ WatchIdle /\ ServeIdle

FindCover ==
    /\ ppc = "call"
    /\ pout' = find_cover_info(pin.metas, pin.items)
    /\ ppc' = "done"
    /\ UNCHANGED <<pin, serveVars, discVars, disk, libVars, mainVars, fsVars, watchVars>>

CoverNext == FindCover

SpecCover == CoverInit /\ [][CoverNext]_vars

\* the item at the least position of a non-empty set of positions
FirstAt(items, ps) == items[CHOOSE i \in ps : \A j \in ps : i <= j]

NamedLikeCover(item) ==
    is_image(item.media_type) /\ \E pattern \in cover_patterns : contains(item.href, pattern)

IsImage(item) == is_image(item.media_type)

\* what rules (2), (3) and (4) give
CoverByNameOrType(items) ==
    LET named  == {i \in 1..Len(items) : NamedLikeCover(items[i])}
        images == {i \in 1..Len(items) : IsImage(items[i])}
    IN  IF named # {} THEN FirstAt(items, named)
        ELSE IF images # {} THEN FirstAt(items, images)
        ELSE NoCover

\* the ids that some meta named cover or cover-image declares
DeclaredIds(metas) ==
    {metas[i].content : i \in {j \in 1..Len(metas) : metas[j].name \in {"cover", "cover-image"}}}

\* C15 as claimed: (1) a manifest item whose id is the content of a meta
\* named cover or cover-image, whenever there is one; otherwise (2) the first
\* image whose href has a cover pattern; otherwise (3) the first image;
\* otherwise no cover.
C15_CoverPriority ==
    ppc = "done" =>
        LET declared == {i \in 1..Len(pin.items) : pin.items[i].id \in DeclaredIds(pin.metas)}
        IN  IF declared # {}
            THEN pout \in {pin.items[i] : i \in declared}
            ELSE pout = CoverByNameOrType(pin.items)

\* C15 amended: only the first meta named cover or cover-image counts, and
\* only if its content is not empty: (1) the first manifest item whose id is
\* that content; otherwise (2), (3) and (4) as claimed.
C15_FirstMetaCoverPriority ==
    ppc = "done" =>
        LET named == {j \in 1..Len(pin.metas) : pin.metas[j].name \in {"cover", "cover-image"}}
            first == CHOOSE j \in named : \A k \in named : j <= k
            declared == {i \in 1..Len(pin.items) :
                            /\ named # {}
                            /\ pin.metas[first].content # ""
                            /\ pin.items[i].id = pin.metas[first].content}
        IN  IF declared # {}
            THEN pout = FirstAt(pin.items, declared)
            ELSE pout = CoverByNameOrType(pin.items)

\* a declared cover that is in the manifest is chosen although an image named
\* like a cover comes before it
C15_Witness ==
    /\ ppc = "done"
    /\ Len(pin.metas) = 2 /\ pin.metas[2] = [name |-> "cover", content |-> "img1"]
    /\ pin.metas[1].name = "calibre:series"
    /\ Len(pin.items) = 2 /\ pin.items[1].id = "img2" /\ pin.items[2].id = "img1"
    /\ pout = pin.items[2]

-----------------------------------------------------------------------------
(* EPUBProcessor.fix_image_links *)

\* A URL or path as fix_image_links sees it: the string split at every "/"
\* into components, a component being its pieces in order. "/x.png" has an
\* empty first component, "http://h/x.png" an empty second one.
uRel     == <<<<"pic.png">>>>
uUp      == <<<<"..">>, <<"images">>, <<"pic.png">>>>
uDot     == <<<<".">>, <<"pic.png">>>>
uUpUp    == <<<<"..">>, <<"..">>, <<"pic.png">>>>
uHttp    == <<<<"http:">>, <<>>, <<"h">>, <<"pic.png">>>>
uHttps   == <<<<"https:">>, <<>>, <<"h">>, <<"pic.png">>>>
uData    == <<<<"data:", "image/png;base64,AAAA">>>>
uRooted  == <<<<>>, <<"images">>, <<"pic.png">>>>

ImgSrcs == {uRel, uUp, uDot, uUpUp, uHttp, uHttps, uData, uRooted}

\* src.startswith(('http://', 'https://', 'data:', '/'))
starts_absolute(src) ==
    \/ Len(src) >= 2 /\ src[1] = <<>>
    \/ Len(src) >= 3 /\ src[1] \in {<<"http:">>, <<"https:">>} /\ src[2] = <<>>
    \/ src[1] # <<>> /\ src[1][1] = "data:"

\* os.path.normpath of a relative path: "." and empty components go, ".."
\* takes the component before it away unless there is none
RECURSIVE normparts(_, _)
normparts(parts, done) ==
    IF parts = <<>> THEN done
    ELSE LET c == Head(parts)
         IN  IF c = <<>> \/ c = <<".">> THEN normparts(Tail(parts), done)
             ELSE IF c = <<"..">> /\ done # <<>> /\ done[Len(done)] # <<"..">>
                  THEN normparts(Tail(parts), SubSeq(done, 1, Len(done) - 1))
                  ELSE normparts(Tail(parts), Append(done, c))

inner_normpath(parts) ==
    IF normparts(parts, <<>>) = <<>> THEN <<<<".">>>> ELSE normparts(parts, <<>>)

\* os.path.dirname and os.path.join on paths inside the EPUB
inner_dirname(path) == SubSeq(path, 1, Len(path) - 1)
inner_join(dir, rel) == dir \o rel

\* a chapter's internal path in the same form
AsParts(path) == [i \in 1..Len(path) |-> <<path[i]>>]

\* f"{self.resources_base}/{full_src}"
web_src(chapter_path, src) ==
    <<<<"resources">>>> \o inner_normpath(inner_join(inner_dirname(AsParts(chapter_path)), src))

\* An <img> tag is its attributes in order: name, the quote around the value,
\* and the value. The text src="..." with a non-empty value is found in an
\* attribute whose name ends in src and whose value is in double quotes.
has_src_text(attr) ==
    attr.name \in {"src", "data-src"} /\ attr.quote = "dq" /\ attr.value # <<>>

\* re.sub with img_pattern on one tag, and replace_img_link on the match: the
\* greedy [^>]+ makes group(1) the value of the last src="..." of the tag, and
\* str.replace rewrites every src="<that value>" of the tag
fix_image_links(tag, chapter_path) ==
    LET hits == {i \in 1..Len(tag) : has_src_text(tag[i])}
        last == CHOOSE i \in hits : \A j \in hits : j <= i
        src  == tag[last].value
    IN  IF hits = {} THEN tag
        ELSE IF starts_absolute(src) THEN tag
        ELSE [i \in 1..Len(tag) |->
                IF has_src_text(tag[i]) /\ tag[i].value = src
                THEN [tag[i] EXCEPT !.value = web_src(chapter_path, src)]
                ELSE tag[i]]

\* ---- one call of fix_image_links on a chapter body that holds one <img>
MaxAttrs == 2

ImgAttrs == [name : {"src", "data-src", "alt"}, quote : {"dq", "sq"}, value : ImgSrcs]

\* the tags of an XHTML body: one src attribute, and other attributes
ImgTags ==
    {t \in UNION {[1..n -> ImgAttrs] : n \in 1..MaxAttrs} :
        Cardinality({i \in 1..Len(t) : t[i].name = "src"}) = 1}

ImgInit ==
    /\ pin \in [tag : ImgTags, chapter_path : {pCh1, pCh3}]
    /\ pout = <<>> /\ ppc = "call"
    /\ tree = EmptyMap /\ DiscIdle /\ MainIdle /\ LibIdle /\ FsFresh /\ WatchIdle /\ ServeIdle

FixImageLinks ==
    /\ ppc = "call"
    /\ pout' = fix_image_links(pin.tag, pin.chapter_path)
    /\ ppc' = "done"
    /\ UNCHANGED <<pin, serveVars, discVars, disk, libVars, mainVars, fsVars, watchVars>>

ImgNext == FixImageLinks

SpecImg == ImgInit /\ [][ImgNext]_vars

\* C17: every img src that does not start with http://, https://, data: or /
\* is rewritten to resources/ followed by the src resolved against the
\* chapter's directory and normalized; every src that does start with one of
\* them is left as it is.
C17_ImgSrcRewritten ==
    ppc = "done" =>
        /\ Len(pout) = Len(pin.tag)
        /\ \A i \in 1..Len(pin.tag) :
              pin.tag[i].name = "src" =>
                  pout[i].value = IF starts_absolute(pin.tag[i].value)
                                  THEN pin.tag[i].value
                                  ELSE web_src(pin.chapter_path, pin.tag[i].value)

-----------------------------------------------------------------------------
(* EPUBWatcher: normalize_path, is_subpath, remove_nested_paths,            *)
(* has_no_hidden_component and get_monitor_path                             *)

\* the paths of the watched tree behind the symbolic link /w/.l -> /w/s
wLdir == LinkFrom
wS    == join(Root, nS)
wT    == join(wS, nT)

\* os.path.isfile and os.path.exists follow symbolic links
link_isfile(t, p) == isfile(t, resolve(p))
link_exists(t, p) == exists(t, resolve(p))

\* "/" followed by the components joined with "/"
RECURSIVE from_components(_)
from_components(parts) ==
    IF parts = <<>> THEN <<>>
    ELSE <<SLASH>> \o Head(parts) \o from_components(Tail(parts))

\* os.path.normpath on the components of an absolute path: "." goes, ".."
\* takes the component before it away, and nothing at the root
RECURSIVE abs_normparts(_, _)
abs_normparts(parts, done) ==
    IF parts = <<>> THEN done
    ELSE IF Head(parts) = <<".">> THEN abs_normparts(Tail(parts), done)
    ELSE IF Head(parts) = <<".", ".">>
         THEN abs_normparts(Tail(parts),
                            IF done = <<>> THEN done ELSE SubSeq(done, 1, Len(done) - 1))
         ELSE abs_normparts(Tail(parts), Append(done, Head(parts)))

\* os.path.abspath(os.path.normpath(path)) for an absolute path
normalize_path(path) ==
    IF abs_normparts(components(path), <<>>) = <<>> THEN <<SLASH>>
    ELSE from_components(abs_normparts(components(path), <<>>))

\* os.path.commonpath of two absolute, normalized paths
RECURSIVE common_parts(_, _)
common_parts(a, b) ==
    IF a = <<>> \/ b = <<>> \/ Head(a) # Head(b) THEN <<>>
    ELSE <<Head(a)>> \o common_parts(Tail(a), Tail(b))

commonpath(a, b) ==
    IF common_parts(components(a), components(b)) = <<>> THEN <<SLASH>>
    ELSE from_components(common_parts(components(a), components(b)))

\* is_subpath as it would be if only equal paths counted
is_subpath_same_only(child_path, parent_path) ==
    normalize_path(child_path) = normalize_path(parent_path)

is_subpath(child_path, parent_path) ==
    LET child  == normalize_path(child_path)
        parent == normalize_path(parent_path)
    IN  IF child = parent THEN TRUE
        ELSE commonpath(child, parent) = parent

\* sorted(paths, key=len): a stable insertion by length
RECURSIVE insert_by_len(_, _)
insert_by_len(sorted, path) ==
    IF sorted = <<>> THEN <<path>>
    ELSE IF Len(Head(sorted)) <= Len(path)
         THEN <<Head(sorted)>> \o insert_by_len(Tail(sorted), path)
         ELSE <<path>> \o sorted

RECURSIVE sorted_by_len(_)
sorted_by_len(paths) ==
    IF paths = <<>> THEN <<>>
    ELSE insert_by_len(sorted_by_len(SubSeq(paths, 1, Len(paths) - 1)), paths[Len(paths)])

\* the loop of lines 142-153
RECURSIVE keep_unnested(_, _)
keep_unnested(sorted_paths, unique_paths) ==
    IF sorted_paths = <<>> THEN unique_paths
    ELSE LET path == Head(sorted_paths)
             is_nested == \E i \in 1..Len(unique_paths) : is_subpath(path, unique_paths[i])
         IN  keep_unnested(Tail(sorted_paths),
                           IF is_nested THEN unique_paths ELSE Append(unique_paths, path))

\* remove_nested_paths reads self.paths, the inputs as they were given
remove_nested_paths(paths) ==
    keep_unnested(sorted_by_len([i \in 1..Len(paths) |-> normalize_path(paths[i])]), <<>>)

has_no_hidden_component(path_str) ==
    LET parts == components(resolve(path_str))
    IN  \A i \in 1..Len(parts) : ~startswith_dot(parts[i])

\* lines 171-181: valid_path as the first loop collects it
RECURSIVE collect_valid_path(_, _)
collect_valid_path(t, paths) ==
    IF paths = <<>> THEN <<>>
    ELSE (IF link_isfile(t, Head(paths)) THEN <<dirname(Head(paths))>>
          ELSE IF link_exists(t, Head(paths)) THEN <<Head(paths)>>
          ELSE <<>>) \o collect_valid_path(t, Tail(paths))

\* list(filter(self.has_no_hidden_component, paths)): the kept paths in order
RECURSIVE filter_seq(_)
filter_seq(paths) ==
    IF paths = <<>> THEN <<>>
    ELSE (IF has_no_hidden_component(Head(paths)) THEN <<Head(paths)>> ELSE <<>>)
            \o filter_seq(Tail(paths))

\* get_monitor_path: line 184 assigns remove_nested_paths(), which works on
\* self.paths, over the list lines 171-183 built, and line 185 filters that
get_monitor_path(t, paths) ==
    LET collected  == collect_valid_path(t, paths)
        valid_path == remove_nested_paths(paths)
    IN  filter_seq(valid_path)

\* ---- one call of get_monitor_path on the inputs main() was given
MaxInputs == 2

MonTrees ==
    {t \in Trees : /\ t[wS] = "dir" /\ t[wT] = "dir" /\ t[join(Root, nDot)] = "dir"
                   /\ t[join(Root, nA)] = "file" /\ t[join(wS, nC)] = "file"
                   /\ t[join(Root, nB)] = "none" /\ t[join(Root, nH)] = "none"
                   /\ t[join(wT, nC)] = "none"}

\* the inputs: paths of the tree, paths through the symbolic link, and
\* paths that are not normalized
MonInputs ==
    Universe \cup {wLdir, join(wLdir, nC), wS \o <<SLASH>>,
                   join(join(Root, <<".">>), nS), join(join(wS, <<".", ".">>), nA)}

MonInit ==
    /\ tree \in MonTrees
    /\ pin \in UNION {[1..n -> {q \in MonInputs : link_exists(tree, normalize_path(q))}] :
                        n \in 1..MaxInputs}
    /\ pout = <<>> /\ ppc = "call"
    /\ DiscIdle /\ MainIdle /\ LibIdle /\ FsFresh /\ WatchIdle /\ ServeIdle

GetMonitorPath ==
    /\ ppc = "call"
    /\ pout' = get_monitor_path(tree, pin)
    /\ ppc' = "done"
    /\ UNCHANGED <<pin, serveVars, discVars, disk, libVars, mainVars, fsVars, watchVars>>

MonNext == GetMonitorPath

SpecMonitor == MonInit /\ [][MonNext]_vars

\* C18: no path returned by get_monitor_path is a file, and for a single
\* non-hidden file input the result is exactly its containing directory.
C18_MonitorsDirectories ==
    ppc = "done" =>
        /\ \A i \in 1..Len(pout) : ~link_isfile(tree, pout[i])
        /\ (Len(pin) = 1 /\ link_isfile(tree, pin[1]) /\ ~HasHiddenPart(pin[1]))
               => pout = <<normalize_path(dirname(pin[1]))>>

\* C19 as claimed: the paths returned hold no duplicate, no two paths one of
\* which is a sub-path of the other, and no path with a component beginning
\* with ".".
C19_NoDuplicateNestedHidden ==
    ppc = "done" =>
        /\ \A i, j \in 1..Len(pout) : i # j => ~AtOrBelow(pout[i], pout[j])
        /\ \A i \in 1..Len(pout) : ~HasHiddenPart(pout[i])

\* C19 amended: no duplicate, no two paths one of which is a sub-path of the
\* other, and no path that has a component beginning with "." once symbolic
\* links are resolved.
C19_NoDuplicateNestedResolvedHidden ==
    ppc = "done" =>
        /\ \A i, j \in 1..Len(pout) : i # j => ~AtOrBelow(pout[i], pout[j])
        /\ \A i \in 1..Len(pout) : ~HasHiddenPart(resolve(pout[i]))

\* a directory given after a directory below it: the outer one alone is kept
C19_Witness ==
    /\ ppc = "done"
    /\ pin = <<wT, wS \o <<SLASH>>>>
    /\ pout = <<wS>>

-----------------------------------------------------------------------------
(* EpubFileHandler over a library whose path index is filled                *)

\* a library in which the books of the paths ps are registered, indexed,
\* published and listed on the home page; no code of library.py writes the
\* path index, so the registry the handlers of watch.py expect to find is
\* taken from the specification. The paths are those main() hands to
\* add_book: epub_file_discover returns hidden files too.
IndexedBooks(ps) ==
    [h \in {path_hash(p) : p \in ps} |->
        BookRecord(h, CHOOSE p \in ps : path_hash(p) = h)]

IndexedInit ==
    /\ tree = EmptyMap /\ DiscIdle /\ ProcIdle /\ MainIdle /\ WatchIdle /\ ServeIdle
    /\ disk = EmptyMap /\ tempdirs = EmptyMap
    /\ \E ps \in SUBSET {wA, wC, wH} :
          /\ books = IndexedBooks(ps)
          /\ file2hash \in {[p \in qs |-> path_hash(p)] : qs \in SUBSET ps}
          /\ bookdir = DOMAIN books
          /\ home = IndexOf(books)
    /\ output_dir = "None" /\ base_exists = TRUE
    /\ assets = FALSE /\ userfile = FALSE /\ cpc = "none"

IndexedNext == OnDeleted

SpecIndexed == IndexedInit /\ [][IndexedNext]_vars

DeleteHandled(x) == ~is_directory(x) /\ endswith_epub(x) /\ ~HiddenResolved(x)

-----------------------------------------------------------------------------
(* EpubFileHandler.on_moved as a delete followed by a create                *)

\* the old path of a move is one whose book on_moved removes
MovedFromKnown(e, idx) ==
    /\ ~is_directory(e.src) /\ endswith_epub(e.src)
    /\ ~HasHiddenPart(e.src)
    /\ e.src \in DOMAIN idx

\* the new path of a move is one on_moved adds
MovedToValid(e) == endswith_epub(e.dest) /\ ~HasHiddenPart(e.dest)

\* C22: a move event is handled as a delete followed by a create: if the old
\* path is non-hidden and known, its book is removed and the home page
\* regenerated before anything is added; then, if the new path is non-hidden
\* and ends in ".epub", add_book is called for the new path and on success the
\* book is published with move_book and the home page regenerated. After a
\* successful move of a known book the old path is absent from the path index
\* and the new path is present.
C22_MoveIsDeleteThenCreate ==
    [][ev'.kind = "moved" =>
          LET k   == IF MovedFromKnown(ev', file2hash) THEN 2 ELSE 0
              ok  == Len(calls') > k /\ calls'[k + 1] = <<"add_book", ev'.dest, TRUE>>
          IN  /\ MovedFromKnown(ev', file2hash) =>
                    /\ Len(calls') >= 2
                    /\ SubSeq(CallNames(calls'), 1, 2) = <<"remove_book", "create_library_home">>
              /\ MovedToValid(ev') =>
                    /\ Len(calls') > k
                    /\ calls'[k + 1] \in {<<"add_book", ev'.dest, TRUE>>,
                                          <<"add_book", ev'.dest, FALSE>>}
                    /\ ok => /\ SubSeq(CallNames(calls'), k + 1, Len(calls')) =
                                    <<"add_book", "move_book", "create_library_home">>
                             /\ home' = IndexOf(books')
              /\ (MovedFromKnown(ev', file2hash) /\ MovedToValid(ev') /\ ok) =>
                    /\ ev'.src \notin DOMAIN file2hash'
                    /\ ev'.dest \in DOMAIN file2hash']_vars

-----------------------------------------------------------------------------
(* main(): the end of the ingestion                                         *)

\* main's positions up to the joins of lines 81-82
BeforeJoin == {"idle", "check_paths", "discover", "spawn"}

\* C23: main() does not read the success counter, call create_library_home or
\* reorganize_files, or start the watcher or the server until every ingestion
\* worker has been started and has terminated; so nothing that runs after
\* them overlaps with a worker's add_book.
C23_IngestionBarrier ==
    mpc \notin BeforeJoin =>
        /\ Len(tpc) = Len(real_epub_files)
        /\ \A i \in DOMAIN tpc : tpc[i] \in {"raised", "done"}
        /\ Executing = {}

\* main() is past the joins after two workers ran add_book and registered
\* their books
C23_Witness ==
    /\ mpc \notin BeforeJoin
    /\ Len(tpc) = 2
    /\ Cardinality(DOMAIN books) = 2
    /\ \A i \in DOMAIN tpc : tpc[i] \in {"raised", "done"}

-----------------------------------------------------------------------------
(* main(): server mode, from line 98 to the end                             *)

\* a directory with two books, one of them in a subdirectory
ServeTree ==
    [p \in Universe |->
        IF p \in {Root, join(Root, nS)} THEN "dir"
        ELSE IF p \in {wA, wC} THEN "file" ELSE "none"]

\* lines 60-61 over every file, one call after the other
RECURSIVE AddAll(_, _, _)
AddAll(r, files, d) ==
    IF files = <<>> THEN r
    ELSE AddAll(add_book(r.books, r.tempdirs, Head(files), d[Head(files)]), Tail(files), d)

Options == [no_server : BOOLEAN, watch : BOOLEAN, keep_files : BOOLEAN]

\* main() at line 98: the files were ingested, at least one with success, and
\* lines 92-96 have written the home page, the assets and book/
ServeInit ==
    /\ tree = ServeTree /\ DiscIdle /\ ProcIdle /\ WatchIdle
    /\ args = <<Root>>
    /\ real_epub_files = DiscoverAll(tree, args)
    /\ disk \in [EpubPaths(tree) -> {c \in Contents : c.kind \in {"ok", "corrupt"}}]
    /\ LET r == AddAll([books |-> EmptyMap, tempdirs |-> EmptyMap], real_epub_files, disk)
       IN  /\ books = r.books
           /\ books # EmptyMap
           /\ bookdir = Movable(r.books, r.tempdirs)
           /\ tempdirs = Without(r.tempdirs,
                                 {r.books[h].temp_dir : h \in Movable(r.books, r.tempdirs)})
    /\ file2hash = EmptyMap
    /\ returned_ok = {i \in 1..Len(real_epub_files) : disk[real_epub_files[i]].kind = "ok"}
    /\ success_count = Cardinality(returned_ok)
    /\ tpc = [i \in 1..Len(real_epub_files) |-> "done"]
    /\ pbar_n = Len(real_epub_files)
    /\ spawn_i = Len(real_epub_files) + 1
    /\ exit_code = -1
    /\ mpc = "no_server"
    /\ output_dir \in {"None", "out"}
    /\ base_exists = TRUE
    /\ home = IndexOf(books)
    /\ assets = TRUE
    /\ userfile \in (IF output_dir = "None" THEN {FALSE} ELSE BOOLEAN)
    /\ cpc = "none"
    /\ opts \in Options
    /\ server_thread = "none" /\ watchdog_thread = "none"
    /\ interrupted = FALSE /\ cleanups = 0

\* lines 99-101: with --no-server main() returns once the files are written
MainNoServer ==
    /\ mpc = "no_server"
    /\ IF opts.no_server
       THEN mpc' = "returned" /\ exit_code' = 0
       ELSE mpc' = "start_watchdog" /\ UNCHANGED exit_code
    /\ UNCHANGED <<discVars, disk, libVars, fsVars, watchVars, procVars, serveVars, args,
                   real_epub_files, spawn_i, tpc, success_count, pbar_n, returned_ok>>

\* lines 104-116: the watcher's thread is started when --watch was given
MainStartWatchdog ==
    /\ mpc = "start_watchdog"
    /\ mpc' = "start_server"
    /\ watchdog_thread' = IF opts.watch THEN "alive" ELSE watchdog_thread
    /\ UNCHANGED <<discVars, disk, libVars, fsVars, watchVars, procVars, opts, server_thread,
                   interrupted, cleanups, args, real_epub_files, spawn_i, tpc,
                   success_count, pbar_n, exit_code, returned_ok>>

\* lines 119-133: the server's thread is started
MainStartServer ==
    /\ mpc = "start_server"
    /\ mpc' = "wait"
    /\ server_thread' = "alive"
    /\ UNCHANGED <<discVars, disk, libVars, fsVars, watchVars, procVars, opts, watchdog_thread,
                   interrupted, cleanups, args, real_epub_files, spawn_i, tpc,
                   success_count, pbar_n, exit_code, returned_ok>>

\* watch_changes ends: watcher.watch() returned for want of a path to monitor
\* (watch.py:191-193) or raised (main.py:108-109)
WatchdogEnds ==
    /\ mpc # "returned"
    /\ watchdog_thread = "alive"
    /\ watchdog_thread' = "dead"
    /\ UNCHANGED <<discVars, disk, libVars, fsVars, watchVars, procVars, opts, server_thread,
                   interrupted, cleanups, mainVars>>

\* start_serve ends: start_server returned or raised (lines 121-127)
ServerEnds ==
    /\ mpc # "returned"
    /\ server_thread = "alive"
    /\ server_thread' = "dead"
    /\ UNCHANGED <<discVars, disk, libVars, fsVars, watchVars, procVars, opts, watchdog_thread,
                   interrupted, cleanups, mainVars>>

\* the wait loop with the test of the server thread only
MainWaitLoop_server_only ==
    /\ mpc = "wait"
    /\ server_thread # "alive"
    /\ mpc' = "finally"
    /\ UNCHANGED <<discVars, disk, libVars, fsVars, watchVars, procVars, serveVars, args,
                   real_epub_files, spawn_i, tpc, success_count, pbar_n, exit_code,
                   returned_ok>>

\* lines 137-145: the loop is left when the server thread, or with --watch
\* the watcher's thread, is not alive (a pass that finds both alive changes
\* nothing)
MainWaitLoop ==
    /\ mpc = "wait"
    /\ \/ server_thread # "alive"
       \/ opts.watch /\ watchdog_thread # "none" /\ watchdog_thread # "alive"
    /\ mpc' = "finally"
    /\ UNCHANGED <<discVars, disk, libVars, fsVars, watchVars, procVars, serveVars, args,
                   real_epub_files, spawn_i, tpc, success_count, pbar_n, exit_code,
                   returned_ok>>

\* lines 146-147: KeyboardInterrupt is raised in the loop
MainInterrupt ==
    /\ mpc = "wait"
    /\ interrupted' = TRUE
    /\ mpc' = "finally"
    /\ UNCHANGED <<discVars, disk, libVars, fsVars, watchVars, procVars, opts, server_thread,
                   watchdog_thread, cleanups, args, real_epub_files, spawn_i, tpc,
                   success_count, pbar_n, exit_code, returned_ok>>

\* lines 150-152: cleanup() unless --keep-files was given; then main() returns
MainFinally ==
    /\ mpc = "finally"
    /\ IF ~opts.keep_files
       THEN /\ IF output_dir # "None" THEN cleanup_user_dir ELSE cleanup_temp_dir
            /\ cleanups' = cleanups + 1
       ELSE UNCHANGED <<base_exists, tempdirs, home, bookdir, assets, userfile, cpc, cleanups>>
    /\ mpc' = "returned"
    /\ exit_code' = IF cpc' = "raised" THEN 1 ELSE 0
    /\ UNCHANGED <<discVars, disk, books, file2hash, output_dir, watchVars, procVars, opts,
                   server_thread, watchdog_thread, interrupted, args, real_epub_files,
                   spawn_i, tpc, success_count, pbar_n, returned_ok>>

ServeNext ==
    \/ MainNoServer
    \/ MainStartWatchdog
    \/ MainStartServer
    \/ WatchdogEnds
    \/ ServerEnds
    \/ MainWaitLoop
    \/ MainInterrupt
    \/ MainFinally

\* the main thread is scheduled: a pass of the loop that can leave it, and
\* the finally clause, are eventually executed
SpecServe ==
    /\ ServeInit /\ [][ServeNext]_vars
    /\ WF_vars(MainWaitLoop) /\ WF_vars(MainFinally)

\* a background task main() waits on is no longer alive
TaskDown ==
    \/ server_thread = "dead"
    \/ opts.watch /\ watchdog_thread = "dead"

\* C24: in server mode the wait loop ends only when an interrupt arrives or
\* the server, or with --watch the watcher, is no longer alive; whenever it
\* ends, cleanup() is called exactly when --keep-files was not given; and
\* main() never stays in the loop with a dead server or watcher task.
C24_WaitLoopEndsAndCleans ==
    /\ [][(mpc = "wait" /\ mpc' # "wait") => (interrupted' \/ TaskDown)]_vars
    /\ [][(mpc = "finally" /\ mpc' # "finally") =>
             cleanups' = (IF opts.keep_files THEN 0 ELSE 1)]_vars
    /\ [](mpc \in {"wait", "finally"} => cleanups = 0)
    /\ ((mpc = "wait" /\ TaskDown) ~> (mpc = "returned"))

\* with --watch and without --keep-files the watcher's thread died while the
\* server ran on: main() left the loop, called cleanup() once and returned
C24_Witness ==
    /\ mpc = "returned" /\ ~opts.no_server /\ opts.watch /\ ~opts.keep_files
    /\ watchdog_thread = "dead" /\ server_thread = "alive"
    /\ ~interrupted /\ cleanups = 1 /\ cpc = "returned"

-----------------------------------------------------------------------------
(* EPUBLibrary: the published books                                         *)

\* the working web directory of book h exists (temp_dir/web)
HasWorkingWeb(bk, td, h) == bk[h].web_dir \in DOMAIN td /\ td[bk[h].web_dir]

\* C25: once a book has been published, and for as long as its hash is a key
\* of books, its generated files exist at book/<hash>/ and nowhere else under
\* the base directory, also across a re-ingestion of the published book by
\* add_book such as a watcher's create or modify handler makes.
C25_PublishedOnlyUnderBook ==
    /\ [](cpc = "none" =>
            \A h \in DOMAIN books \cap bookdir : ~HasWorkingWeb(books, tempdirs, h))
    /\ [][ev'.kind = "add_book" =>
            \A h \in DOMAIN books \cap bookdir : h \in DOMAIN books' => h \in bookdir']_vars

-----------------------------------------------------------------------------
(* the working directories of the add_book calls in progress                *)

\* the directories base_directory/epub_<h> that the add_book call of worker i
\* uses: the one __init__ makes from the hash of the path, and, once the OPF
\* is parsed, the one generate_hash points the processor at
work_dirs(i) ==
    LET f  == real_epub_files[i]
        c  == disk[f]
        h0 == path_hash(f)
    IN  IF extract_epub(c) /\ parse_container(c) # "None" /\ parse_opf(c)
        THEN {h0, generate_hash(h0, c)}
        ELSE {h0}

\* C27: at no point during the concurrent ingestion do two add_book calls in
\* progress use the same temp/extract/web directory, also when the same file
\* was discovered twice from overlapping inputs and when two files yield the
\* same TOC-derived hash.
C27_WorkDirsExclusive ==
    \A i \in Executing : \A j \in Executing :
        i # j => work_dirs(i) \cap work_dirs(j) = {}

-----------------------------------------------------------------------------
(* the registry after the watcher's handlers                                *)

\* the books registered for the source path p
EntriesOf(bk, p) == {h \in DOMAIN bk : bk[h].epub_path = p}

-----------------------------------------------------------------------------
(* EPUBLibrary.cleanup called in any state                                  *)

\* C30: cleanup() is total and idempotent: called in any state (index.html
\* never generated or already removed, temp directories already deleted,
\* cleanup already executed once) it completes without raising, and a call
\* after the first leaves the file system as the first call left it.
C30_CleanupTotalIdempotent ==
    [][ev'.kind = "cleanup" =>
          /\ cpc' = "returned"
          /\ cpc = "returned" =>
                UNCHANGED <<base_exists, tempdirs, home, bookdir, assets, userfile>>]_vars

====
